---------------------------- MODULE Spec2Model ----------------------------
(***************************************************************************)
(* FHEZamaQuiz: a write-once confidential answer store (the Solidity       *)
(* contract FHEZamaQuiz), the encrypted-input and user-decryption gateways *)
(* it is used with (as the contract's Hardhat tests drive them), and the   *)
(* text codec stringToBigInt / bigIntToString.                             *)
(*                                                                         *)
(* A text is a sequence of Unicode code points, a byte string a sequence   *)
(* of 0..255, a hex string a sequence of digits 0..15, and a bigint the    *)
(* hex digits of its value without leading zeros.  A ciphertext            *)
(* handle is the index of the encrypted input it was issued for; 0 is the  *)
(* zero handle of an unset euint32.                                        *)
(***************************************************************************)
EXTENDS Integers, Sequences, FiniteSets, TLC

VARIABLES
    _userAnswer,    \* mapping(address => euint32): the stored handle (0 = unset)
    _hasAnswered,   \* mapping(address => bool)
    acl,            \* the FHE access-control list: {<<handle, principal>>}
    inputs,         \* encrypted inputs issued by the encryption gateway
    pool,           \* submitAnswer transactions sent and not yet mined
    chain,          \* the mined transactions, in ledger order, with their outcome
    lastDecrypt,    \* the latest user-decryption request, its outcome and the ledger height then
    text,           \* codec run: the text given to stringToBigInt
    encoded,        \* codec run: the bigint it returned
    decoded,        \* codec run: the text bigIntToString returned
    cpc,            \* codec run: position ("idle", "start", "encoded", "decoded", "threw")
    reads,          \* the results of the view calls made so far, with the ledger height then
    message,        \* useFHEZamaQuiz: useState message
    isProcessing,   \* useFHEZamaQuiz: useState isProcessing
    renderedIsProcessing, \* isProcessing as of the last render: what the callbacks and buttons see
    answerHandle,   \* useFHEZamaQuiz: data of the getEncryptedAnswer query (Undefined before the first result)
    decryptedString, \* useFHEZamaQuiz: the decrypted answer as text (empty when none)
    attempts,       \* the calls of the hook's submitAnswer that have not returned, each with its position
    calls,          \* the number of calls of the hook's submitAnswer so far
    justSubmitted   \* FHEZamaQuiz component: useState justSubmitted

vars == <<_userAnswer, _hasAnswered, acl, inputs, pool, chain, lastDecrypt,
          text, encoded, decoded, cpc, reads,
          message, isProcessing, renderedIsProcessing, answerHandle,
          decryptedString, attempts, calls, justSubmitted>>

storeVars == <<_userAnswer, _hasAnswered, acl>>
codecVars == <<text, encoded, decoded, cpc>>
hookVars == <<message, isProcessing, renderedIsProcessing, answerHandle,
              decryptedString, attempts, calls>>
screenVars == <<justSubmitted>>

----------------------------------------------------------------------------
(* Bounds of the model *)

MaxInputs == 3
MaxTxs == 3
MaxTextLen == 4
MaxReads == 2
MaxCalls == 2

----------------------------------------------------------------------------
(* Codec: packages/nextjs/utils/helper/encoding.ts *)

RECURSIVE Concat(_)
Concat(ss) == IF ss = <<>> THEN <<>> ELSE Head(ss) \o Concat(Tail(ss))

\* (mutant) one byte per character, its code modulo 256
Latin1Char(c) == <<c % 256>>

\* ethers toUtf8Bytes, one code point
Utf8Char(c) ==
    IF c < 128 THEN <<c>>
    ELSE IF c < 2048 THEN <<192 + (c \div 64), 128 + (c % 64)>>
    ELSE IF c < 65536
        THEN <<224 + (c \div 4096), 128 + ((c \div 64) % 64), 128 + (c % 64)>>
    ELSE <<240 + (c \div 262144), 128 + ((c \div 4096) % 64),
           128 + ((c \div 64) % 64), 128 + (c % 64)>>

toUtf8Bytes(str) == Concat([i \in 1..Len(str) |-> Utf8Char(str[i])])

\* (mutant) a byte below 0x10 gives one hex digit only
hexlifyUnpadded(bytes) ==
    Concat([i \in 1..Len(bytes) |->
              IF bytes[i] < 16 THEN <<bytes[i]>> ELSE <<bytes[i] \div 16, bytes[i] % 16>>])

\* ethers hexlify(bytes).substring(2): two hex digits per byte
hexlify(bytes) == Concat([i \in 1..Len(bytes) |-> <<bytes[i] \div 16, bytes[i] % 16>>])

\* A bigint is held as its numeral: its base-16 digits, most significant
\* first, without leading zeros (zero is the empty numeral)
RECURSIVE StripZeros(_)
StripZeros(hex) ==
    IF hex # <<>> /\ Head(hex) = 0 THEN StripZeros(Tail(hex)) ELSE hex

\* BigInt("0x" + hex)
ParseHex(hex) == StripZeros(hex)

\* BigInt("0x") is a SyntaxError: stringToBigInt throws on the empty string
stringToBigIntThrows(str) == hexlify(toUtf8Bytes(str)) = <<>>

stringToBigInt(str) == ParseHex(hexlify(toUtf8Bytes(str)))

\* bn.toString(16): the minimal digits, "0" for zero
toString16(bn) == IF bn = <<>> THEN <<0>> ELSE bn

\* (mutant) the odd-length padding is left out
PadNever(hex) == hex

\* if (hex.length % 2 !== 0) hex = "0" + hex
PadEven(hex) == IF Len(hex) % 2 # 0 THEN <<0>> \o hex ELSE hex

\* Buffer.from(hex, "hex")
BufferFromHex(hex) ==
    [i \in 1..(Len(hex) \div 2) |-> 16 * hex[2 * i - 1] + hex[2 * i]]

\* Buffer.toString("utf8"): ill-formed input decodes to U+FFFD per maximal subpart
RECURSIVE Utf8DecodeFrom(_, _)
Utf8DecodeFrom(b, i) ==
    IF i > Len(b) THEN <<>>
    ELSE LET b0 == b[i]
             need == IF b0 < 128 THEN 0
                     ELSE IF b0 \in 194..223 THEN 1
                     ELSE IF b0 \in 224..239 THEN 2
                     ELSE IF b0 \in 240..244 THEN 3
                     ELSE -1
             lo1 == IF b0 = 224 THEN 160 ELSE IF b0 = 240 THEN 144 ELSE 128
             hi1 == IF b0 = 237 THEN 159 ELSE IF b0 = 244 THEN 143 ELSE 191
             ok(k) == /\ i + k <= Len(b)
                      /\ b[i + k] \in (IF k = 1 THEN lo1..hi1 ELSE 128..191)
             got == IF need >= 1 /\ ok(1)
                    THEN IF need >= 2 /\ ok(2)
                         THEN IF need >= 3 /\ ok(3) THEN 3 ELSE 2
                         ELSE 1
                    ELSE 0
             cp == IF need = 0 THEN b0
                   ELSE IF need = 1 THEN (b0 - 192) * 64 + (b[i + 1] - 128)
                   ELSE IF need = 2
                       THEN (b0 - 224) * 4096 + (b[i + 1] - 128) * 64 + (b[i + 2] - 128)
                   ELSE (b0 - 240) * 262144 + (b[i + 1] - 128) * 4096
                        + (b[i + 2] - 128) * 64 + (b[i + 3] - 128)
         IN  IF need = -1 THEN <<65533>> \o Utf8DecodeFrom(b, i + 1)
             ELSE IF got = need THEN <<cp>> \o Utf8DecodeFrom(b, i + need + 1)
             ELSE <<65533>> \o Utf8DecodeFrom(b, i + got + 1)

bigIntToString(bn) == Utf8DecodeFrom(BufferFromHex(PadEven(toString16(bn))), 1)

----------------------------------------------------------------------------
(* The parties: the test's signers, the deployed contract, and another     *)
(* contract address an input may have been encrypted for.                  *)

Users == {"alice", "bob"}
This == "quizContract"
Other == "otherContract"
Contracts == {This, Other}

\* euint32: the width of the ciphertext slot
W == 32

\* add32(value): the value must fit the slot's W bits
FitsUint(bn, bits) == 4 * Len(bn) <= bits

\* The zero handle of a mapping entry never written
ZeroHandle == 0

\* The query's data before its first result
Undefined == 0 - 1

\* Answers the participants encrypt: "ABC" and "\0A"
AnswerTexts == {<<65, 66, 67>>, <<0, 65>>}

\* An input encrypted for another contract carries "ABC"
TextsFor(c) == IF c = This THEN AnswerTexts ELSE {<<65, 66, 67>>}

\* Code points the codec runs draw from: NUL, LF, "A", U+00E9, U+20AC, U+1F600
CodecChars == {0, 10, 65, 233, 8364, 128512}

SeqsUpTo(S, n) == UNION {[1..k -> S] : k \in 0..n}

NoDecrypt ==
    [requester |-> "none", owner |-> "none", status |-> "none", text |-> <<>>, height |-> 0]

----------------------------------------------------------------------------
(* The contract FHEZamaQuiz *)

hasAnswered(user) == _hasAnswered[user]

\* (mutant) the view returns the first participant's entry, not the argument's
getEncryptedAnswerOfFirst(user) == _userAnswer["alice"]

getEncryptedAnswer(user) == _userAnswer[user]

\* (mutant) the require is missing
RequireNothing(sender) == TRUE

\* require(!_hasAnswered[msg.sender], "Already answered")
RequireNotAnswered(sender) == ~_hasAnswered[sender]

\* (mutant) the proof is not checked against msg.sender
FromExternalAnySender(sender, answerEncrypted, proof) ==
    /\ proof \in 1..Len(inputs)
    /\ answerEncrypted = proof
    /\ inputs[proof].contract = This

\* FHE.fromExternal(answerEncrypted, proof): the proof must attest the handle
\* for this contract and this sender, else the call reverts
FromExternalOk(sender, answerEncrypted, proof) ==
    /\ proof \in 1..Len(inputs)
    /\ answerEncrypted = proof
    /\ inputs[proof].contract = This
    /\ inputs[proof].user = sender

\* (mutant) the handle is not written
StoreNothing(sender, value) == _userAnswer

\* (mutant) the handle is written under every key
StoreForEveryone(sender, value) == [u \in Users |-> value]

\* _userAnswer[msg.sender] = value
StoreAnswer(sender, value) == [_userAnswer EXCEPT ![sender] = value]

\* (mutant) every participant is allowed on the value
AllowedEveryone(sender, value) == {<<value, p>> : p \in Users \cup {This}}

\* FHE.allow(value, msg.sender); FHE.allowThis(value)
Allowed(sender, value) == {<<value, sender>>, <<value, This>>}

\* (mutant) the flag is set for every participant
MarkEveryone(sender) == [u \in Users |-> TRUE]

\* (mutant) the flag is never set
MarkNobody(sender) == _hasAnswered

\* _hasAnswered[msg.sender] = true
MarkAnswered(sender) == [_hasAnswered EXCEPT ![sender] = TRUE]

\* (mutant) a failed call leaves the sender's flag set
RevertedMarked(sender, reason) ==
    [status |-> reason, userAnswer |-> _userAnswer,
     hasAnswered |-> [_hasAnswered EXCEPT ![sender] = TRUE], acl |-> acl]

\* A revert: the transaction fails with its reason and writes nothing
Reverted(sender, reason) ==
    [status |-> reason, userAnswer |-> _userAnswer,
     hasAnswered |-> _hasAnswered, acl |-> acl]

\* One call of submitAnswer as a transaction: its outcome and the storage
\* after it (a revert leaves the storage as it was)
submitAnswer(sender, answerEncrypted, proof) ==
    IF ~RequireNotAnswered(sender) THEN Reverted(sender, "Already answered")
    ELSE IF ~FromExternalOk(sender, answerEncrypted, proof) THEN Reverted(sender, "InvalidProof")
    ELSE [status |-> "ok",
          userAnswer |-> StoreAnswer(sender, answerEncrypted),
          hasAnswered |-> MarkAnswered(sender),
          acl |-> acl \cup Allowed(sender, answerEncrypted)]

----------------------------------------------------------------------------
(* The gateways and the ledger *)

\* fhevm.createEncryptedInput(contract, user).add32(stringToBigInt(t)).encrypt()
\* issues a fresh handle with a proof binding it to (contract, user), and
\* quizContract.connect(u).submitAnswer(handles[0], inputProof) sends it
EncryptAndSend(u, c, t) ==
    /\ Len(inputs) < MaxInputs
    /\ Cardinality(pool) + Len(chain) < MaxTxs
    /\ ~stringToBigIntThrows(t)
    /\ FitsUint(stringToBigInt(t), W)
    /\ inputs' = Append(inputs, [user |-> u, contract |-> c, text |-> t,
                                 plain |-> stringToBigInt(t)])
    /\ pool' = pool \cup {[sender |-> u, handle |-> Len(inputs) + 1,
                           proof |-> Len(inputs) + 1]}
    /\ UNCHANGED <<storeVars, chain, lastDecrypt, codecVars, reads, hookVars, screenVars>>

\* Anyone may send a handle and proof seen in an earlier transaction again
Resend(u, i) ==
    /\ Cardinality(pool) + Len(chain) < MaxTxs
    /\ i \in 1..Len(inputs)
    /\ [sender |-> u, handle |-> i, proof |-> i] \notin pool
    /\ pool' = pool \cup {[sender |-> u, handle |-> i, proof |-> i]}
    /\ UNCHANGED <<storeVars, inputs, chain, lastDecrypt, codecVars, reads, hookVars, screenVars>>

\* The ledger orders one pending transaction next and runs it
Mine(tx) ==
    /\ tx \in pool
    /\ LET r == submitAnswer(tx.sender, tx.handle, tx.proof)
       IN  /\ _userAnswer' = r.userAnswer
           /\ _hasAnswered' = r.hasAnswered
           /\ acl' = r.acl
           /\ chain' = Append(chain, [sender |-> tx.sender, handle |-> tx.handle,
                                      proof |-> tx.proof, status |-> r.status])
    /\ pool' = pool \ {tx}
    /\ UNCHANGED <<inputs, lastDecrypt, codecVars, reads, hookVars, screenVars>>

\* fhevm.userDecryptEuint(euint32, getEncryptedAnswer(owner), contract, requester):
\* granted when requester and contract are both allowed on the handle
Decrypt(requester, owner) ==
    /\ LET h == getEncryptedAnswer(owner)
       IN  lastDecrypt' =
             IF h # ZeroHandle /\ <<h, requester>> \in acl /\ <<h, This>> \in acl
             THEN [requester |-> requester, owner |-> owner,
                   status |-> "ok", text |-> bigIntToString(inputs[h].plain),
                   height |-> Len(chain)]
             ELSE [requester |-> requester, owner |-> owner,
                   status |-> "NotAuthorized", text |-> <<>>,
                   height |-> Len(chain)]
    /\ UNCHANGED <<storeVars, inputs, pool, chain, codecVars, reads, hookVars, screenVars>>

\* No view call made yet; the hook as mounted: no message, not processing, the
\* query without data, nothing decrypted, submitAnswer never called
ClientInit ==
    /\ reads = <<>>
    /\ message = ""
    /\ isProcessing = FALSE
    /\ renderedIsProcessing = FALSE
    /\ answerHandle = Undefined
    /\ decryptedString = <<>>
    /\ attempts = <<>>
    /\ calls = 0
    /\ justSubmitted = FALSE

Init ==
    /\ ClientInit
    /\ _userAnswer = [u \in Users |-> ZeroHandle]
    /\ _hasAnswered = [u \in Users |-> FALSE]
    /\ acl = {}
    /\ inputs = <<>>
    /\ pool = {}
    /\ chain = <<>>
    /\ lastDecrypt = NoDecrypt
    /\ text = <<>>
    /\ encoded = <<>>
    /\ decoded = <<>>
    /\ cpc = "idle"

Next ==
    \/ \E u \in Users, c \in Contracts : \E t \in TextsFor(c) : EncryptAndSend(u, c, t)
    \/ \E u \in Users, i \in 1..MaxInputs : Resend(u, i)
    \/ \E tx \in pool : Mine(tx)
    \/ \E v \in Users, u \in Users : Decrypt(v, u)

Spec == Init /\ [][Next]_vars

----------------------------------------------------------------------------
(* Codec runs: stringToBigInt on a text, then bigIntToString on the result *)

CodecEncode ==
    /\ cpc = "start"
    /\ ~stringToBigIntThrows(text)
    /\ encoded' = stringToBigInt(text)
    /\ cpc' = "encoded"
    /\ UNCHANGED <<storeVars, inputs, pool, chain, lastDecrypt, reads, hookVars, screenVars, text, decoded>>

CodecEncodeThrows ==
    /\ cpc = "start"
    /\ stringToBigIntThrows(text)
    /\ cpc' = "threw"
    /\ UNCHANGED <<storeVars, inputs, pool, chain, lastDecrypt, reads, hookVars, screenVars, text, encoded, decoded>>

CodecDecode ==
    /\ cpc = "encoded"
    /\ decoded' = bigIntToString(encoded)
    /\ cpc' = "decoded"
    /\ UNCHANGED <<storeVars, inputs, pool, chain, lastDecrypt, reads, hookVars, screenVars, text, encoded>>

CodecInit ==
    /\ ClientInit
    /\ _userAnswer = [u \in Users |-> ZeroHandle]
    /\ _hasAnswered = [u \in Users |-> FALSE]
    /\ acl = {}
    /\ inputs = <<>>
    /\ pool = {}
    /\ chain = <<>>
    /\ lastDecrypt = NoDecrypt
    /\ text \in SeqsUpTo(CodecChars, MaxTextLen)
    /\ encoded = <<>>
    /\ decoded = <<>>
    /\ cpc = "start"

CodecNext == CodecEncode \/ CodecEncodeThrows \/ CodecDecode

CodecSpec == CodecInit /\ [][CodecNext]_vars

----------------------------------------------------------------------------
(* View calls: hasAnswered(user) and getEncryptedAnswer(user) between the  *)
(* submissions of the participants                                         *)

\* await quizContract.hasAnswered(user), a view call
ReadFlag(u) ==
    /\ Len(reads) < MaxReads
    /\ reads' = Append(reads, [fn |-> "hasAnswered", user |-> u,
                               flag |-> hasAnswered(u), handle |-> ZeroHandle,
                               height |-> Len(chain)])
    /\ UNCHANGED <<storeVars, inputs, pool, chain, lastDecrypt, codecVars, hookVars, screenVars>>

\* await quizContract.getEncryptedAnswer(user), a view call
ReadHandle(u) ==
    /\ Len(reads) < MaxReads
    /\ reads' = Append(reads, [fn |-> "getEncryptedAnswer", user |-> u,
                               flag |-> FALSE, handle |-> getEncryptedAnswer(u),
                               height |-> Len(chain)])
    /\ UNCHANGED <<storeVars, inputs, pool, chain, lastDecrypt, codecVars, hookVars, screenVars>>

ReadNext ==
    \/ \E u \in Users : EncryptAndSend(u, This, <<65, 66, 67>>)
    \/ \E tx \in pool : Mine(tx)
    \/ \E u \in Users : ReadFlag(u)
    \/ \E u \in Users : ReadHandle(u)

ReadSpec == Init /\ [][ReadNext]_vars

----------------------------------------------------------------------------
(* The hook useFHEZamaQuiz of the connected account, its decrypt button,   *)
(* and the ledger it talks to                                              *)

\* accounts[0], the connected account
Account == "alice"

\* The texts submitAnswer is called with: the empty text, and the five bytes
\* NUL "ABCD", whose encoding 0x41424344 fits 32 bits
HookTexts == {<<>>, <<0, 65, 66, 67, 68>>}

\* How the encryption and the sending of the transaction may turn out
EncryptOutcomes == {"sent", "undefined", "throws", "no contract"}

\* (mutant) hasAnswered is true as soon as the query has data
quizHasAnsweredOnData == answerHandle # Undefined

\* hasAnswered of the hook: the handle last read is neither missing nor zero
quizHasAnswered == answerHandle # Undefined /\ answerHandle # ZeroHandle

SubmittingMessage == "Submitting answer..."
SuccessMessage == "Quiz submitted successfully!"

\* catch (err): the message carries the reason of the error
CatchMessage(reason) == "Error: " \o reason

\* A call of submitAnswer past its guard, at "await encryptWith(...)"
NewAttempt(t) ==
    [text |-> t, encoded |-> stringToBigInt(t), pc |-> "encrypting", sent |-> ZeroHandle]

\* The running calls once call a has returned
Returned(a) == SubSeq(attempts, 1, a - 1) \o SubSeq(attempts, a + 1, Len(attempts))

\* (mutant) isProcessing is left as it is when the call ends
FinallySkipped(reason) == isProcessing

\* finally { setIsProcessing(false) }, on every way out of the try block
Finally(reason) == FALSE

\* if (!answerString || isProcessing) return, isProcessing being the value the
\* callback was created with
GuardReturns(t) == t = <<>> \/ renderedIsProcessing

\* submitAnswer(answerString) up to its first await
submitAnswerCall(t, abiFound) ==
    /\ calls < MaxCalls
    /\ calls' = calls + 1
    /\ IF GuardReturns(t)
       THEN UNCHANGED <<attempts, message, isProcessing>>
       ELSE IF ~abiFound
       THEN /\ message' = "Function ABI not found for submitAnswer"
            /\ isProcessing' = Finally("no method")
            /\ UNCHANGED attempts
       ELSE IF stringToBigIntThrows(t)
       THEN /\ message' = CatchMessage("Cannot convert 0x to a BigInt")
            /\ isProcessing' = Finally("threw")
            /\ UNCHANGED attempts
       ELSE /\ attempts' = Append(attempts, NewAttempt(t))
            /\ message' = SubmittingMessage
            /\ isProcessing' = TRUE
    /\ UNCHANGED <<storeVars, inputs, pool, chain, lastDecrypt, codecVars, reads, screenVars,
                   renderedIsProcessing, answerHandle, decryptedString>>

\* (mutant) the transaction is sent whatever encryptWith returned
SendsAlways(out) == TRUE

\* The transaction is sent when encryptWith returned a handle with its proof,
\* the write contract exists and the wallet signs
Sends(out) == out = "sent"

\* encryptWith(...) returns or throws, and on a result the transaction
\* writeContract.submitAnswer(handle, proof) is sent
EncryptReturn(a, out) ==
    /\ a \in 1..Len(attempts)
    /\ attempts[a].pc = "encrypting"
    /\ out \in EncryptOutcomes
    /\ FitsUint(attempts[a].encoded, W) \/ out = "throws"
    /\ IF out \in {"sent", "no contract"}
       THEN /\ Len(inputs) < MaxInputs
            /\ inputs' = Append(inputs, [user |-> Account, contract |-> This,
                                         text |-> attempts[a].text,
                                         plain |-> attempts[a].encoded])
       ELSE UNCHANGED inputs
    /\ IF Sends(out)
       THEN /\ Cardinality(pool) + Len(chain) < MaxTxs
            /\ pool' = pool \cup {[sender |-> Account, handle |-> Len(inputs) + 1,
                                   proof |-> Len(inputs) + 1]}
            /\ attempts' = [attempts EXCEPT ![a].pc = "waiting",
                                            ![a].sent = Len(inputs) + 1]
            /\ UNCHANGED <<message, isProcessing>>
       ELSE /\ attempts' = Returned(a)
            /\ message' = CASE out = "undefined" -> "Encryption failed"
                             [] out = "no contract" -> "Contract not available"
                             [] OTHER -> CatchMessage("encryption error")
            /\ isProcessing' = Finally(out)
            /\ UNCHANGED pool
    /\ UNCHANGED <<storeVars, chain, lastDecrypt, codecVars, reads, screenVars,
                   renderedIsProcessing, answerHandle, decryptedString, calls>>

\* await tx.wait() returns once the transaction is mined, and throws when it
\* reverted
TxWaitReturn(a) ==
    /\ a \in 1..Len(attempts)
    /\ attempts[a].pc = "waiting"
    /\ \E k \in 1..Len(chain) :
          /\ chain[k].sender = Account
          /\ chain[k].handle = attempts[a].sent
          /\ IF chain[k].status = "ok"
             THEN /\ attempts' = [attempts EXCEPT ![a].pc = "refreshing"]
                  /\ UNCHANGED <<message, isProcessing>>
             ELSE /\ attempts' = Returned(a)
                  /\ message' = CatchMessage(chain[k].status)
                  /\ isProcessing' = Finally("threw")
    /\ UNCHANGED <<storeVars, inputs, pool, chain, lastDecrypt, codecVars, reads, screenVars,
                   renderedIsProcessing, answerHandle, decryptedString, calls>>

\* await refreshAnswer() returns, with new data when the read went through and
\* with the data as it was when it did not; then the success message is set
RefreshReturn(a, readOk) ==
    /\ a \in 1..Len(attempts)
    /\ attempts[a].pc = "refreshing"
    /\ answerHandle' = IF readOk THEN getEncryptedAnswer(Account) ELSE answerHandle
    /\ attempts' = Returned(a)
    /\ message' = SuccessMessage
    /\ isProcessing' = Finally("success")
    /\ UNCHANGED <<storeVars, inputs, pool, chain, lastDecrypt, codecVars, reads, screenVars,
                   renderedIsProcessing, decryptedString, calls>>

\* React renders the hook again: the callbacks and buttons see the new state
Render ==
    /\ renderedIsProcessing # isProcessing
    /\ renderedIsProcessing' = isProcessing
    /\ UNCHANGED <<storeVars, inputs, pool, chain, lastDecrypt, codecVars, reads, screenVars,
                   message, isProcessing, answerHandle, decryptedString, attempts,
                   calls>>

\* useReadContract fetches getEncryptedAnswer(accounts[0])
Fetch ==
    /\ answerHandle # getEncryptedAnswer(Account)
    /\ answerHandle' = getEncryptedAnswer(Account)
    /\ UNCHANGED <<storeVars, inputs, pool, chain, lastDecrypt, codecVars, reads, screenVars,
                   message, isProcessing, renderedIsProcessing, decryptedString,
                   attempts, calls>>

\* (mutant) decrypt is offered as soon as the query has data, the zero handle
\* included
DecryptOfferedOnData == answerHandle # Undefined /\ decryptedString = <<>>

\* The decrypt button is there when quiz.hasAnswered && !quiz.decryptedString
DecryptOffered == quizHasAnswered /\ decryptedString = <<>>

\* A click on the decrypt button: decrypt() asks the gateway for the value of
\* answerHandle on behalf of the account
DecryptClick(gatewayOk) ==
    /\ DecryptOffered
    /\ ~renderedIsProcessing
    /\ IF gatewayOk /\ <<answerHandle, Account>> \in acl /\ <<answerHandle, This>> \in acl
       THEN /\ lastDecrypt' = [requester |-> Account, owner |-> Account, status |-> "ok",
                               text |-> bigIntToString(inputs[answerHandle].plain)]
            /\ decryptedString' = bigIntToString(inputs[answerHandle].plain)
            /\ message' = "Decryption completed"
       ELSE /\ lastDecrypt' = [requester |-> Account, owner |-> Account,
                               status |-> "failed", text |-> <<>>]
            /\ message' = "Decryption failed"
            /\ UNCHANGED decryptedString
    /\ UNCHANGED <<storeVars, inputs, pool, chain, codecVars, reads, screenVars,
                   isProcessing, renderedIsProcessing, answerHandle, attempts,
                   calls>>

\* The same account submits from another session
OtherSession == EncryptAndSend(Account, This, <<65, 66, 67>>)

HookNext ==
    \/ \E t \in HookTexts, abiFound \in BOOLEAN : submitAnswerCall(t, abiFound)
    \/ \E a \in 1..MaxCalls, out \in EncryptOutcomes : EncryptReturn(a, out)
    \/ \E a \in 1..MaxCalls : TxWaitReturn(a)
    \/ \E a \in 1..MaxCalls, readOk \in BOOLEAN : RefreshReturn(a, readOk)
    \/ Render
    \/ Fetch
    \/ \E gatewayOk \in BOOLEAN : DecryptClick(gatewayOk)
    \/ OtherSession
    \/ \E tx \in pool : Mine(tx)

HookSpec == Init /\ [][HookNext]_vars

\* The awaited calls return, the ledger mines what is pending, React renders
HookFairness ==
    /\ WF_vars(\E a \in 1..MaxCalls, out \in EncryptOutcomes : EncryptReturn(a, out))
    /\ WF_vars(\E a \in 1..MaxCalls : TxWaitReturn(a))
    /\ WF_vars(\E a \in 1..MaxCalls, readOk \in BOOLEAN : RefreshReturn(a, readOk))
    /\ WF_vars(\E tx \in pool : Mine(tx))
    /\ WF_vars(Render)

HookFairSpec == Init /\ [][HookNext]_vars /\ HookFairness

----------------------------------------------------------------------------
(* The status values the hook returns, read by the screen                  *)

\* What a reader of the hook's return value sees
Status ==
    [fn |-> "status", hasAnswered |-> quizHasAnswered, answerHandle |-> answerHandle,
     decryptedString |-> decryptedString, message |-> message]

\* The screen reads hasAnswered, answerHandle, decryptedString and message
\* from the object the hook returned; the latest reading is kept
Poll ==
    /\ reads # <<Status>>
    /\ reads' = <<Status>>
    /\ UNCHANGED <<storeVars, inputs, pool, chain, lastDecrypt, codecVars, hookVars, screenVars>>

\* One session of the account: the hook, the ledger, and the readings
StatusNext ==
    \/ \E t \in HookTexts, abiFound \in BOOLEAN : submitAnswerCall(t, abiFound)
    \/ \E a \in 1..MaxCalls, out \in EncryptOutcomes : EncryptReturn(a, out)
    \/ \E a \in 1..MaxCalls : TxWaitReturn(a)
    \/ \E a \in 1..MaxCalls, readOk \in BOOLEAN : RefreshReturn(a, readOk)
    \/ Render
    \/ Fetch
    \/ \E gatewayOk \in BOOLEAN : DecryptClick(gatewayOk)
    \/ \E tx \in pool : Mine(tx)
    \/ Poll

StatusSpec == Init /\ [][StatusNext]_vars

----------------------------------------------------------------------------
(* The screen FHEZamaQuiz: the submit button and what it shows             *)

\* The answers picked on the screen, one letter per question: "BBA"
ScreenTexts == {<<66, 66, 65>>}

\* const showResult = Boolean(quiz.decryptedString || justSubmitted)
showResult == decryptedString # <<>> \/ justSubmitted

\* The submit button is there under !quiz.hasAnswered and enabled when every
\* question has an answer and quiz.isProcessing is false
SubmitOffered == ~quizHasAnswered /\ ~renderedIsProcessing

\* A click on the submit button: handleSubmit up to await quiz.submitAnswer
handleSubmit(t, abiFound) ==
    /\ SubmitOffered
    /\ t \in ScreenTexts
    /\ submitAnswerCall(t, abiFound)

\* handleSubmit after await quiz.submitAnswer(answerString) has returned:
\* setJustSubmitted(true)
handleSubmitResume ==
    /\ calls > Len(attempts)
    /\ ~justSubmitted
    /\ justSubmitted' = TRUE
    /\ UNCHANGED <<storeVars, inputs, pool, chain, lastDecrypt, codecVars, reads,
                   hookVars>>

ScreenNext ==
    \/ \E t \in ScreenTexts, abiFound \in BOOLEAN : handleSubmit(t, abiFound)
    \/ handleSubmitResume
    \/ \E a \in 1..MaxCalls, out \in EncryptOutcomes : EncryptReturn(a, out)
    \/ \E a \in 1..MaxCalls : TxWaitReturn(a)
    \/ \E a \in 1..MaxCalls, readOk \in BOOLEAN : RefreshReturn(a, readOk)
    \/ Render
    \/ Fetch
    \/ \E gatewayOk \in BOOLEAN : DecryptClick(gatewayOk)
    \/ OtherSession
    \/ \E tx \in pool : Mine(tx)

ScreenSpec == Init /\ [][ScreenNext]_vars

----------------------------------------------------------------------------
(* Properties.  The ledger history chain and the issued inputs are what    *)
(* the statements below read the past from.                                *)

\* The mined transactions of u that succeeded
OkOf(u) == {k \in 1..Len(chain) : chain[k].sender = u /\ chain[k].status = "ok"}

\* The mined transactions of u that were rejected
RejectedOf(u) == {k \in 1..Len(chain) : chain[k].sender = u /\ chain[k].status # "ok"}

\* The transaction carries an input the gateway encrypted for (this contract, its sender)
ProofBinds(tx) ==
    /\ tx.proof \in 1..Len(inputs)
    /\ tx.handle = tx.proof
    /\ inputs[tx.proof].contract = This
    /\ inputs[tx.proof].user = tx.sender

\* The mined transactions of u whose proof binds
BoundOf(u) == {k \in 1..Len(chain) : chain[k].sender = u /\ ProofBinds(chain[k])}

\* The principals allowed on handle h
Holders(h) == {e[2] : e \in {x \in acl : x[1] = h}}

\* The text u encrypted for its first successful submission
FirstText(u) ==
    inputs[chain[CHOOSE k \in OkOf(u) : \A j \in OkOf(u) : k <= j].handle].text

SingleByte(t) == \A i \in 1..Len(t) : t[i] < 128

\* C1: once a submitAnswer of u has succeeded, u stays marked as answered, the
\* stored handle stays that of the first successful submission, and every later
\* submitAnswer of u reverts with "Already answered".
C1_WriteOnce ==
    \A u \in Users : \A k \in OkOf(u) :
        /\ hasAnswered(u)
        /\ getEncryptedAnswer(u) = chain[k].handle
        /\ \A j \in (k + 1)..Len(chain) :
              chain[j].sender = u => chain[j].status = "Already answered"

\* C1 witness: after a success, a well-formed second submission with another
\* handle was rejected
C1_Witness ==
    \E u \in Users : \E k \in OkOf(u) : \E j \in (k + 1)..Len(chain) :
        /\ chain[j].sender = u
        /\ ProofBinds(chain[j])
        /\ chain[j].handle # chain[k].handle
        /\ chain[j].status = "Already answered"
        /\ getEncryptedAnswer(u) = chain[k].handle

\* C2: the flag of u is set exactly when a non-zero handle is stored for u.
C2_FlagIffHandle ==
    \A u \in Users : hasAnswered(u) <=> getEncryptedAnswer(u) # ZeroHandle

\* C2 witness: one participant has answered, the other was rejected and has not
C2_Witness ==
    \E u, v \in Users :
        /\ hasAnswered(u) /\ getEncryptedAnswer(u) # ZeroHandle
        /\ ~hasAnswered(v) /\ RejectedOf(v) # {}

C3_Holders ==
    /\ \A u \in Users :
          Holders(getEncryptedAnswer(u)) = IF OkOf(u) = {} THEN {} ELSE {u, This}
    /\ \A e \in acl : \E u \in Users : e[1] = getEncryptedAnswer(u)
    /\ lastDecrypt.status = "ok" => lastDecrypt.requester = lastDecrypt.owner

\* C3: nobody is allowed on the handle stored for u before u's successful
\* submission and exactly u and the contract are afterwards, a decryption is
\* granted only to the owner of the handle, and no allowance is ever removed.
C3_Capabilities == []C3_Holders /\ [][acl \subseteq acl']_vars

\* C3 witness: another participant asked to decrypt a stored answer and was refused
C3_Witness ==
    \E u \in Users :
        /\ OkOf(u) # {}
        /\ Holders(getEncryptedAnswer(u)) = {u, This}
        /\ lastDecrypt.owner = u
        /\ lastDecrypt.requester \in Users \ {u}
        /\ lastDecrypt.status = "NotAuthorized"

\* C4: a mined submitAnswer of u, accepted or not, leaves the flag and the handle
\* of every other participant as they were, and a participant is marked as
\* answered exactly when one of its own submissions has succeeded.
C4_Independence ==
    [][Len(chain') > Len(chain) =>
         /\ \A v \in Users \ {chain'[Len(chain')].sender} :
               /\ hasAnswered(v)' = hasAnswered(v)
               /\ getEncryptedAnswer(v)' = getEncryptedAnswer(v)
         /\ \A v \in Users : hasAnswered(v)' <=> (OkOf(v) # {})']_vars

\* C4 witness: u has answered; v, whose own submission was then rejected, has not
C4_Witness ==
    \E u, v \in Users :
        /\ u # v
        /\ hasAnswered(u) /\ ~hasAnswered(v)
        /\ \E k \in OkOf(u) : \E j \in RejectedOf(v) : k < j

\* C5: of the well-formed submissions one participant has on the ledger, the one
\* ordered first succeeds and no other does; the others revert with "Already
\* answered" and the stored handle is that of the first.
C5_OneWinner ==
    \A u \in Users :
        /\ Cardinality(OkOf(u)) <= 1
        /\ BoundOf(u) # {} =>
              \E w \in BoundOf(u) :
                  /\ \A k \in BoundOf(u) : w <= k
                  /\ OkOf(u) = {w}
                  /\ getEncryptedAnswer(u) = chain[w].handle
                  /\ \A k \in BoundOf(u) \ {w} : chain[k].status = "Already answered"

\* C5 witness: a submission of u sent before the winning input was even encrypted
\* (a smaller handle, mined once only) was still pending when the winner was
\* mined, and lost
C5_Witness ==
    \E u \in Users : \E w \in OkOf(u) : \E j \in (w + 1)..Len(chain) :
        /\ chain[j].sender = u
        /\ ProofBinds(chain[j])
        /\ chain[j].handle < chain[w].handle
        /\ \A k \in 1..(j - 1) :
              ~(chain[k].sender = u /\ chain[k].handle = chain[j].handle)
        /\ chain[j].status = "Already answered"
        /\ getEncryptedAnswer(u) = chain[w].handle

\* C6: a mined submitAnswer that reverts leaves handles, flags and allowances as
\* they were; it reverts with "Already answered" when the sender is marked, else
\* with InvalidProof when the proof does not bind, and succeeds otherwise, so a
\* sender rejected for its proof is still unmarked and can succeed later.
C6_RejectedNoChange ==
    [][Len(chain') > Len(chain) =>
         LET tx == chain'[Len(chain')]
         IN  /\ tx.status # "ok" =>
                   /\ _userAnswer' = _userAnswer
                   /\ _hasAnswered' = _hasAnswered
                   /\ acl' = acl
             /\ tx.status = "Already answered" <=> hasAnswered(tx.sender)
             /\ tx.status = "InvalidProof" <=>
                   (~hasAnswered(tx.sender) /\ ~ProofBinds(tx))
             /\ tx.status = "ok" <=> (~hasAnswered(tx.sender) /\ ProofBinds(tx))
             /\ tx.status = "InvalidProof" => ~_hasAnswered'[tx.sender]]_vars

\* C6 witness: u was rejected with InvalidProof and succeeded afterwards
C6_Witness ==
    \E u \in Users : \E k \in RejectedOf(u) : \E j \in OkOf(u) :
        /\ chain[k].status = "InvalidProof"
        /\ k < j
        /\ hasAnswered(u)

\* C7 as stated: whenever the owner decrypts its stored handle, decoding gives the
\* text (1 to 4 single-byte characters) of its first successful submission.
C7_Original ==
    (/\ lastDecrypt.status = "ok"
     /\ lastDecrypt.requester = lastDecrypt.owner
     /\ Len(FirstText(lastDecrypt.owner)) \in 1..(W \div 8)
     /\ SingleByte(FirstText(lastDecrypt.owner)))
    => lastDecrypt.text = FirstText(lastDecrypt.owner)

\* C7 (amended): the same for a text whose first character is not U+0000.
C7_EndToEnd ==
    (/\ lastDecrypt.status = "ok"
     /\ lastDecrypt.requester = lastDecrypt.owner
     /\ Len(FirstText(lastDecrypt.owner)) \in 1..(W \div 8)
     /\ SingleByte(FirstText(lastDecrypt.owner))
     /\ FirstText(lastDecrypt.owner)[1] # 0)
    => lastDecrypt.text = FirstText(lastDecrypt.owner)

\* C7 witness: u decrypts "ABC" after its re-submission with another text was
\* rejected and after another participant's submission succeeded
C7_Witness ==
    \E u \in Users : \E v \in Users \ {u} :
        /\ lastDecrypt.status = "ok"
        /\ lastDecrypt.requester = u /\ lastDecrypt.owner = u
        /\ lastDecrypt.text = <<65, 66, 67>>
        /\ FirstText(u) = <<65, 66, 67>>
        /\ \E j \in RejectedOf(u) :
              /\ ProofBinds(chain[j])
              /\ inputs[chain[j].handle].text # FirstText(u)
              /\ j <= lastDecrypt.height
        /\ \E k \in OkOf(v) : k <= lastDecrypt.height

\* C8 as stated: a text of 1 to 4 single-byte characters decodes from its
\* encoding to itself.
C8_Original ==
    (cpc = "decoded" /\ Len(text) \in 1..(W \div 8) /\ SingleByte(text))
    => decoded = text

\* C8 (amended): the same for a text whose first character is not U+0000.
C8_RoundTrip ==
    (cpc = "decoded" /\ Len(text) \in 1..(W \div 8) /\ SingleByte(text)
     /\ text[1] # 0)
    => decoded = text

\* C8 witness: a 4-character text with a first byte below 0x10 and a NUL inside
C8_Witness ==
    cpc = "decoded" /\ text = <<10, 65, 0, 65>> /\ decoded = text

\* C9: two participants that have both answered hold different handles, also
\* when they encrypted the same plaintext.
C9_DistinctHandles ==
    \A a, b \in Users :
        (a # b /\ hasAnswered(a) /\ hasAnswered(b))
        => getEncryptedAnswer(a) # getEncryptedAnswer(b)

\* C9 witness: both have answered with the same plaintext
C9_Witness ==
    \E a, b \in Users :
        /\ a # b /\ hasAnswered(a) /\ hasAnswered(b)
        /\ inputs[getEncryptedAnswer(a)].plain = inputs[getEncryptedAnswer(b)].plain
        /\ getEncryptedAnswer(a) # getEncryptedAnswer(b)

\* C10: a participant none of whose submissions has succeeded (everyone, in the
\* initial state) is not marked as answered and has the zero handle.
C10_InitiallyAbsent ==
    \A u \in Users :
        OkOf(u) = {} => (~hasAnswered(u) /\ getEncryptedAnswer(u) = ZeroHandle)

\* C10 witness: v has answered; u, rejected meanwhile, is still unmarked with the
\* zero handle
C10_Witness ==
    \E u, v \in Users :
        /\ u # v
        /\ OkOf(v) # {} /\ hasAnswered(v)
        /\ OkOf(u) = {} /\ RejectedOf(u) # {}
        /\ ~hasAnswered(u) /\ getEncryptedAnswer(u) = ZeroHandle

\* d is t without some of its first elements
ProperSuffix(d, t) ==
    /\ Len(d) < Len(t)
    /\ d = SubSeq(t, Len(t) - Len(d) + 1, Len(t))

\* A zero byte that follows a non-zero byte
HasInteriorZero(b) ==
    \E i \in 2..Len(b) : b[i] = 0 /\ \E j \in 1..(i - 1) : b[j] # 0

\* C19: a text of at most W/8 UTF-8 bytes whose first byte is not 0x00 decodes
\* from its encoding to itself; one whose first byte is 0x00 followed by further
\* bytes does not: it comes back without its leading part.
C19_RoundTripLaw ==
    (cpc = "decoded" /\ 8 * Len(toUtf8Bytes(text)) <= W)
    => /\ toUtf8Bytes(text)[1] # 0 => decoded = text
       /\ (toUtf8Bytes(text)[1] = 0 /\ Len(toUtf8Bytes(text)) > 1)
            => (decoded # text /\ ProperSuffix(decoded, text))

\* C19 witness: NUL followed by the 3-byte U+20AC comes back as U+20AC alone
C19_Witness ==
    cpc = "decoded" /\ text = <<0, 8364>> /\ decoded = <<8364>>

OkUpTo(u, h) == {k \in OkOf(u) : k <= h}

\* The handle the last successful submission of u up to height h wrote
CommittedHandle(u, h) ==
    IF OkUpTo(u, h) = {} THEN ZeroHandle
    ELSE chain[CHOOSE k \in OkUpTo(u, h) : \A l \in OkUpTo(u, h) : l <= k].handle

\* Each view call returned what the last committed submission left
C11_ReadsCommitted ==
    \A i \in 1..Len(reads) :
        /\ reads[i].fn = "getEncryptedAnswer"
              => reads[i].handle = CommittedHandle(reads[i].user, reads[i].height)
        /\ reads[i].fn = "hasAnswered"
              => reads[i].flag = (OkUpTo(reads[i].user, reads[i].height) # {})

\* Two getEncryptedAnswer(u) calls with no successful submission of u between
\* them returned the same handle
C11_ReadsRepeat ==
    \A i \in 1..Len(reads), j \in 1..Len(reads) :
        (/\ i < j
         /\ reads[i].fn = "getEncryptedAnswer" /\ reads[j].fn = "getEncryptedAnswer"
         /\ reads[i].user = reads[j].user
         /\ OkUpTo(reads[i].user, reads[j].height) = OkUpTo(reads[i].user, reads[i].height))
        => reads[i].handle = reads[j].handle

\* C11: hasAnswered(u) and getEncryptedAnswer(u) change no handle, flag or
\* capability; two getEncryptedAnswer(u) calls with no successful submission of
\* u between them return the same value; each call returns what the last
\* committed submission wrote.
C11_PureReads ==
    /\ [](C11_ReadsCommitted /\ C11_ReadsRepeat)
    /\ [][reads' # reads => UNCHANGED <<storeVars, pool, chain>>]_vars

\* C11 witness: bob's handle read twice after bob's submission, alice having
\* submitted before
C11_Witness ==
    /\ Len(reads) = 2
    /\ reads[1].fn = "getEncryptedAnswer" /\ reads[2].fn = "getEncryptedAnswer"
    /\ reads[1].user = "bob" /\ reads[2].user = "bob"
    /\ reads[1].handle # ZeroHandle
    /\ reads[2].handle = reads[1].handle
    /\ hasAnswered("alice")

\* Every exit path of submitAnswer has set isProcessing back: with no call
\* running the hook is not processing
C16_ExitsReset == attempts = <<>> => ~isProcessing

\* After the render, the guard of submitAnswer lets a call with a non-empty
\* text through, as long as calls are made at all
C16_FreshCall ==
    (~renderedIsProcessing /\ calls < MaxCalls)
    => \E t \in HookTexts : ~GuardReturns(t) /\ ~stringToBigIntThrows(t)

\* A call that goes on past its synchronous part starts at the encoding and
\* the encryption, whatever the calls before it ended with
C16_StartsAtEncoding ==
    (calls' # calls /\ attempts' # attempts)
    => /\ Len(attempts') = Len(attempts) + 1
       /\ message' = SubmittingMessage
       /\ attempts'[Len(attempts')].pc = "encrypting"
       /\ attempts'[Len(attempts')].encoded = stringToBigInt(attempts'[Len(attempts')].text)
       /\ isProcessing'

\* After a failed decryption the decrypt button can be clicked again
C16_DecryptRetry ==
    (lastDecrypt.status = "failed" /\ ~renderedIsProcessing)
    => ENABLED (\E gatewayOk \in BOOLEAN : DecryptClick(gatewayOk))

\* C16: when the awaited gateway and ledger calls return, every running
\* submitAnswer call returns and leaves isProcessing false, whatever its exit
\* path; the next render then lets a fresh call through to the encryption,
\* and a failed decryption can be tried again.
C16_NotATrap ==
    /\ [](C16_ExitsReset /\ C16_FreshCall /\ C16_DecryptRetry)
    /\ [][C16_StartsAtEncoding]_vars
    /\ (attempts # <<>>) ~> (attempts = <<>> /\ ~isProcessing /\ ~renderedIsProcessing)

\* C16 witness: the first call ended with the revert "Already answered", and a
\* second call is running at the encryption
C16_Witness ==
    /\ calls = 2
    /\ Len(attempts) = 1
    /\ attempts[1].pc = "encrypting"
    /\ \E k \in 1..Len(chain) :
          /\ chain[k].status = "Already answered"
          /\ chain[k].sender = Account
          /\ inputs[chain[k].handle].text = <<0, 65, 66, 67, 68>>

\* The UTF-8 bytes of t fit the W-bit plaintext
FitsW(t) == 8 * Len(toUtf8Bytes(t)) <= W

\* C12 as stated: a text of more than W/8 bytes fails at the encoding: no call
\* of submitAnswer gets past the encoding with such a text, and no transaction
\* on the ledger or on its way carries one.
C12_TooLongRejected ==
    /\ \A a \in 1..Len(attempts) : FitsW(attempts[a].text)
    /\ \A tx \in pool : FitsW(inputs[tx.handle].text)
    /\ \A k \in 1..Len(chain) : FitsW(inputs[chain[k].handle].text)

\* C13 as stated: at most one call of submitAnswer is past the guard at any
\* time; a call made while another one runs goes no further.
C13_OneInFlight == Len(attempts) <= 1

\* C14 as stated: while the success message stands, the hook's hasAnswered is
\* true and its answerHandle is the handle the contract holds for the account.
C14_ReadBack ==
    message = SuccessMessage
    => (quizHasAnswered /\ answerHandle = getEncryptedAnswer(Account))

\* The reasons of failure submitAnswer can leave in message
FailureReasons ==
    {"Function ABI not found for submitAnswer", "Encryption failed",
     "Contract not available", "Empty input", "Already processing"}
    \cup {CatchMessage(r) : r \in {"encryption error", "Already answered", "InvalidProof",
                                    "Cannot convert 0x to a BigInt"}}

\* A call of submitAnswer returns in this step without the success message
ReturnsUnconfirmed ==
    \/ calls' = calls + 1 /\ attempts' = attempts
    \/ Len(attempts') < Len(attempts) /\ message' # SuccessMessage

\* C15 as stated: a call of submitAnswer that returns without a confirmed
\* submission leaves a reason of failure in message, and message changes only
\* in a step of a submission or of a decryption.
C15_NoSilentFailure ==
    /\ [][ReturnsUnconfirmed => message' \in FailureReasons]_vars
    /\ [][message' # message
            => (calls' # calls \/ attempts' # attempts \/ lastDecrypt' # lastDecrypt)]_vars

\* C17: a decryption request goes to the gateway only when the contract holds
\* an answer of the account: never for the zero handle of an account that has
\* not answered, nor before the handle was read.
C17_DecryptAfterSubmit ==
    [][lastDecrypt' # lastDecrypt
        => /\ hasAnswered(Account)
           /\ answerHandle # Undefined
           /\ answerHandle # ZeroHandle
           /\ answerHandle = getEncryptedAnswer(Account)]_vars

\* C17 witness: the answer NUL "ABCD" of the account was submitted, read and
\* decrypted
C17_Witness ==
    /\ hasAnswered(Account)
    /\ lastDecrypt.status = "ok"
    /\ lastDecrypt.requester = Account
    /\ decryptedString = <<65, 66, 67, 68>>
    /\ inputs[answerHandle].text = <<0, 65, 66, 67, 68>>

\* A call past the encryption sent the handle the gateway issued to it for
\* this contract and this account, with its proof; a call not past it sent
\* nothing
C18_SentIsEncrypted ==
    \A a \in 1..Len(attempts) :
        IF attempts[a].pc = "encrypting" THEN attempts[a].sent = ZeroHandle
        ELSE /\ attempts[a].sent \in 1..Len(inputs)
             /\ inputs[attempts[a].sent].user = Account
             /\ inputs[attempts[a].sent].contract = This
             /\ inputs[attempts[a].sent].plain = attempts[a].encoded
             /\ inputs[attempts[a].sent].plain = stringToBigInt(attempts[a].text)

\* A transaction leaves the hook only in the step in which the encryption of
\* a call returns a handle, and it carries that handle and its proof
C18_SendAfterEncrypt ==
    (attempts' # attempts /\ pool' # pool)
    => \E a \in 1..Len(attempts) :
          /\ attempts[a].pc = "encrypting"
          /\ attempts' = [attempts EXCEPT ![a].pc = "waiting", ![a].sent = Len(inputs')]
          /\ Len(inputs') = Len(inputs) + 1
          /\ pool' = pool \cup {[sender |-> Account, handle |-> Len(inputs'),
                                 proof |-> Len(inputs')]}

\* A call whose encryption failed or returned nothing ends with that reason
\* and sends nothing
C18_NoSendOnFailure ==
    (/\ Len(attempts') < Len(attempts)
     /\ \E a \in 1..Len(attempts) : attempts[a].pc = "encrypting" /\ attempts' = Returned(a))
    => /\ pool' = pool
       /\ message' \in {"Encryption failed", "Contract not available",
                         CatchMessage("encryption error")}

\* C18: within one call of submitAnswer the transaction is sent only after the
\* encoding and the encryption of that call succeeded, with the handle and
\* proof the gateway returned for (this contract, the account); when the
\* encryption fails or returns nothing the call ends with that failure and
\* without a transaction.
C18_PipelineOrder ==
    /\ []C18_SentIsEncrypted
    /\ [][C18_SendAfterEncrypt]_vars
    /\ [][C18_NoSendOnFailure]_vars

\* C18 witness: one call waits for its transaction, which is pending with the
\* handle issued to it; another call ended with "Encryption failed"
C18_Witness ==
    /\ Len(attempts) = 1
    /\ calls = 2
    /\ attempts[1].pc = "waiting"
    /\ [sender |-> Account, handle |-> attempts[1].sent, proof |-> attempts[1].sent] \in pool
    /\ message = "Encryption failed"

\* The hook's handle is the one the contract holds for the account now
HandleCurrent == answerHandle = getEncryptedAnswer(Account)

\* C21: whenever the handle the hook read last is the one the contract holds
\* for the account, the hook's hasAnswered, derived from that handle being
\* non-zero, equals the contract's hasAnswered(account); and reading the
\* status values changes neither the hook's state nor the contract's, and
\* returns them as they are.
C21_StatusAgrees ==
    /\ [](HandleCurrent => (quizHasAnswered = hasAnswered(Account)))
    /\ [][reads' # reads
            => /\ UNCHANGED <<storeVars, pool, chain, hookVars, screenVars>>
               /\ reads' = <<Status>>
               /\ reads'[1].hasAnswered = quizHasAnswered']_vars

\* C21 witness: after a confirmed submission the status was read with
\* hasAnswered true and the handle the contract holds for the account
C21_Witness ==
    /\ reads # <<>>
    /\ reads[1].hasAnswered
    /\ reads[1].answerHandle = getEncryptedAnswer(Account)
    /\ hasAnswered(Account)
    /\ message = SuccessMessage

\* C22 as stated: whenever the screen shows the correct answers (showResult),
\* the hook's hasAnswered is true or its decryptedString is not empty; a
\* failed submission never leaves the answers shown with the submit button
\* still there.
C22_ResultOnlyWhenCommitted ==
    showResult => (quizHasAnswered \/ decryptedString # <<>>)

============================================================================
